---- MODULE Spec2Model ----
(***************************************************************************)
(* Model of the client-side persistence gateway (services/api.ts):        *)
(* createUser, submitResponse, fetchAllResponses, clearLocalData, their   *)
(* time-bounded remote calls and their localStorage fallbacks.            *)
(*                                                                         *)
(* One page (one JavaScript event loop): every synchronous block of the   *)
(* code is one atomic action; an await is a boundary between two actions. *)
(***************************************************************************)
EXTENDS Integers, Sequences, FiniteSets, Bags, TLC

----------------------------------------------------------------------------
(* Bounds of the model *)

Epoch == 1000         \* first value of Date.now() in a behaviour
ClockSteps == 1       \* how many milliseconds the wall clock can advance
MaxRecords == 3       \* profiles and responses stored or about to be
MaxCalls == 2         \* gateway calls in flight at once

MaxClock == Epoch + ClockSteps
NumQuestions == 2   \* QUESTIONS.length
MaxSelects == 2     \* answers given in one run of the page
MaxPageRecords == 2 \* records the page's calls store or are about to

Names == {"A", "B"}
Avatars == {"cat"}
Grades == {"grade1"}
Genders == {"girl"}
QuestionIds == {5}
Scores == {3}
ServerId == 1         \* an id assigned by the server (AUTOINCREMENT row id)
UserIds == {ServerId, Epoch}

----------------------------------------------------------------------------
(* JSON text and localStorage.                                            *)
(* A string is modelled by its kind and, for JSON text, the value it      *)
(* denotes; "null" is getItem's result for an absent key and "garbage" is *)
(* text JSON.parse rejects.                                               *)

NULL == [kind |-> "null", val |-> <<>>]
Garbage == [kind |-> "garbage", val |-> <<>>]
JSONstringify(v) == [kind |-> "json", val |-> v]
IsJSON(text) == text.kind = "json"
JSONparse(text) == text.val
OrElse(text, default) == IF text.kind = "null" THEN default ELSE text
EmptyArrayText == JSONstringify(<<>>)

getItem(ls, key) == ls[key]
setItem(ls, key, text) == [ls EXCEPT ![key] = text]
removeItem(ls, key) == [ls EXCEPT ![key] = NULL]

(* new Date().toISOString() and new Date(s).getTime(): the ISO text is a  *)
(* fixed-width sequence of decimal digits, parsed back digit by digit.    *)
toISOString(t) ==
  << (t \div 1000) % 10, (t \div 100) % 10, (t \div 10) % 10, t % 10 >>
getTime(s) == s[1] * 1000 + s[2] * 100 + s[3] * 10 + s[4]

----------------------------------------------------------------------------
(* The catch blocks: the local fallbacks *)

LocalUsers(ls) == JSONparse(OrElse(getItem(ls, "sel_users"), EmptyArrayText))
LocalResponses(ls) ==
  JSONparse(OrElse(getItem(ls, "sel_responses"), EmptyArrayText))

createUserCatchNoWrite(ls, a, t) ==
  [ls |-> ls,
   value |-> [id |-> t, name |-> a.name, avatar |-> a.avatar,
              grade |-> a.grade, gender |-> a.gender]]

createUserCatchOverwrite(ls, a, t) ==
  LET newUser == [id |-> t, name |-> a.name, avatar |-> a.avatar,
                  grade |-> a.grade, gender |-> a.gender]
  IN [ls |-> setItem(ls, "sel_users", JSONstringify(<<newUser>>)),
      value |-> newUser]

createUserCatch(ls, a, t) ==
  LET users == LocalUsers(ls)
      newUser == [id |-> t, name |-> a.name, avatar |-> a.avatar,
                  grade |-> a.grade, gender |-> a.gender]
  IN [ls |-> setItem(ls, "sel_users", JSONstringify(Append(users, newUser))),
      value |-> newUser]

submitResponseCatchSwapped(ls, a, t1, t2, t3) ==
  LET responses == LocalResponses(ls)
      record == [id |-> t1, user_id |-> a.questionId, question_id |-> a.userId,
                 score |-> a.score, timestamp |-> toISOString(t2)]
  IN [ls |-> setItem(ls, "sel_responses",
                     JSONstringify(Append(responses, record))),
      value |-> [id |-> t3, status |-> "saved_local"]]

submitResponseCatchStale(ls, a, t1, t2, t3) ==
  LET responses == IF Len(LocalResponses(ls)) > 1
                     THEN SubSeq(LocalResponses(ls), 1, 1)
                     ELSE LocalResponses(ls)
      record == [id |-> t1, user_id |-> a.userId, question_id |-> a.questionId,
                 score |-> a.score, timestamp |-> toISOString(t2)]
  IN [ls |-> setItem(ls, "sel_responses",
                     JSONstringify(Append(responses, record))),
      value |-> [id |-> t3, status |-> "saved_local"]]

submitResponseCatch(ls, a, t1, t2, t3) ==
  LET responses == LocalResponses(ls)
      record == [id |-> t1, user_id |-> a.userId, question_id |-> a.questionId,
                 score |-> a.score, timestamp |-> toISOString(t2)]
  IN [ls |-> setItem(ls, "sel_responses",
                     JSONstringify(Append(responses, record))),
      value |-> [id |-> t3, status |-> "saved_local"]]

(* users.find(u => u.id === r.user_id): the index of the first match, 0   *)
(* when find returns undefined                                            *)
Matches(users, id) == {i \in 1..Len(users) : users[i].id = id}
findLast(users, id) ==
  IF Matches(users, id) = {} THEN 0
  ELSE CHOOSE i \in Matches(users, id) : \A j \in Matches(users, id) : i >= j

find(users, id) ==
  IF Matches(users, id) = {} THEN 0
  ELSE CHOOSE i \in Matches(users, id) : \A j \in Matches(users, id) : i <= j

joinRowZeroId(users, r) ==
  LET i == find(users, r.user_id)
      found == i # 0
  IN [user_id |-> IF found THEN users[i].id ELSE 0,
      user_name |-> IF found THEN users[i].name ELSE "Unknown (Local)",
      user_avatar |-> IF found THEN users[i].avatar ELSE "smiley",
      user_grade |-> IF found THEN users[i].grade ELSE "",
      user_gender |-> IF found THEN users[i].gender ELSE "",
      question_id |-> r.question_id,
      score |-> r.score,
      timestamp |-> r.timestamp]

joinRowSwapped(users, r) ==
  LET i == find(users, r.user_id)
      found == i # 0
  IN [user_id |-> IF found THEN users[i].id ELSE -1,
      user_name |-> IF found THEN users[i].name ELSE "Unknown (Local)",
      user_avatar |-> IF found THEN users[i].avatar ELSE "smiley",
      user_grade |-> IF found THEN users[i].gender ELSE "",
      user_gender |-> IF found THEN users[i].grade ELSE "",
      question_id |-> r.question_id,
      score |-> r.score,
      timestamp |-> r.timestamp]

joinRow(users, r) ==
  LET i == find(users, r.user_id)
      found == i # 0
  IN [user_id |-> IF found THEN users[i].id ELSE -1,
      user_name |-> IF found THEN users[i].name ELSE "Unknown (Local)",
      user_avatar |-> IF found THEN users[i].avatar ELSE "smiley",
      user_grade |-> IF found THEN users[i].grade ELSE "",
      user_gender |-> IF found THEN users[i].gender ELSE "",
      question_id |-> r.question_id,
      score |-> r.score,
      timestamp |-> r.timestamp]

SelectSeqBy(s, keep) ==
  LET F[i \in 0..Len(s)] ==
        IF i = 0 THEN <<>>
        ELSE IF s[i] \in keep THEN Append(F[i - 1], s[i]) ELSE F[i - 1]
  IN F[Len(s)]

joinedInner(users, responses) ==
  LET kept == SelectSeqBy(responses,
                {r \in {responses[i] : i \in 1..Len(responses)} :
                   find(users, r.user_id) # 0})
  IN [i \in 1..Len(kept) |-> joinRow(users, kept[i])]

joined(users, responses) ==
  [i \in 1..Len(responses) |-> joinRow(users, responses[i])]

(* the comparator of line 105 and Array.prototype.sort (stable) *)
compareFnAscending(a, b) == getTime(a.timestamp) - getTime(b.timestamp)

compareFn(a, b) == getTime(b.timestamp) - getTime(a.timestamp)

InsertSorted(s, x) ==
  LET after == {i \in 1..Len(s) : compareFn(x, s[i]) < 0}
      k == IF after = {} THEN Len(s) + 1
           ELSE CHOOSE i \in after : \A j \in after : i <= j
  IN SubSeq(s, 1, k - 1) \o <<x>> \o SubSeq(s, k, Len(s))

RECURSIVE sort(_)
sort(s) ==
  IF s = <<>> THEN <<>>
  ELSE InsertSorted(sort(SubSeq(s, 1, Len(s) - 1)), s[Len(s)])

fetchAllResponsesCatchTaggedDB(ls) ==
  [source |-> "DB",
   data |-> sort(joined(LocalUsers(ls), LocalResponses(ls)))]

fetchAllResponsesCatch(ls) ==
  [source |-> "LOCAL",
   data |-> sort(joined(LocalUsers(ls), LocalResponses(ls)))]

clearLocalDataUsersOnly(ls) == removeItem(ls, "sel_users")

clearLocalDataResponsesOnly(ls) == removeItem(ls, "sel_responses")

clearLocalDataEmptyArrays(ls) ==
  setItem(setItem(ls, "sel_users", EmptyArrayText),
          "sel_responses", EmptyArrayText)

clearLocalDataStore(ls) ==
  removeItem(removeItem(ls, "sel_users"), "sel_responses")

----------------------------------------------------------------------------
(* The remote collaborator: what a 2xx response can carry *)

ServerRow == [user_id |-> ServerId, user_name |-> "A", user_avatar |-> "cat",
              user_grade |-> "grade1", user_gender |-> "girl",
              question_id |-> 5, score |-> 3, timestamp |-> "sqltime"]

Bodies(op, a) ==
  CASE op = "createUser" ->
         {JSONstringify([id |-> ServerId, name |-> a.name, avatar |-> a.avatar,
                         grade |-> a.grade, gender |-> a.gender]),
          Garbage}
    [] op = "submitResponse" ->
         {JSONstringify([id |-> ServerId, status |-> "saved"]), Garbage}
    [] op = "fetchAllResponses" ->
         {JSONstringify(<<ServerRow>>), Garbage}
    [] OTHER -> {}

(* The server's report: GET /api/admin/responses.  The SQL statement is  *)
(* an inner join of responses with users on responses.user_id = users.id, *)
(* one row per matching pair, ordered by the timestamp text descending;   *)
(* SQL leaves the order of rows with equal timestamps open, so the        *)
(* statement has a set of possible results.                               *)
sqlJoinOn(users, responses) ==
  {p \in (1..Len(responses)) \X (1..Len(users)) :
     responses[p[1]].user_id = users[p[2]].id}

sqlSelect(users, responses, p) ==
  [user_id |-> users[p[2]].id,
   user_name |-> users[p[2]].name,
   user_avatar |-> users[p[2]].avatar,
   user_grade |-> users[p[2]].grade,
   user_gender |-> users[p[2]].gender,
   question_id |-> responses[p[1]].question_id,
   score |-> responses[p[1]].score,
   timestamp |-> responses[p[1]].timestamp]

sqlTextLess(a, b) ==
  \E k \in 1..Len(a) :
    /\ k <= Len(b)
    /\ a[k] < b[k]
    /\ \A j \in 1..(k - 1) : a[j] = b[j]

sqlOrderByDesc(rows) ==
  \A i, j \in 1..Len(rows) :
    i < j => ~sqlTextLess(rows[i].timestamp, rows[j].timestamp)

adminResponses(users, responses) ==
  LET pairs == sqlJoinOn(users, responses)
      n == Cardinality(pairs)
      orders == {f \in [1..n -> pairs] :
                   \A i, j \in 1..n : i # j => f[i] # f[j]}
      results == {[k \in 1..n |-> sqlSelect(users, responses, f[k])] :
                    f \in orders}
  IN {rows \in results : sqlOrderByDesc(rows)}

----------------------------------------------------------------------------
(* State *)

VARIABLES
  localStorage,   \* key -> text, NULL when the key is absent
  now,            \* the wall clock as last read; a later read is not earlier
  pending,        \* the bag of the calls in flight
  ret,            \* the promise settled by the last step, NoRet once delivered
  cleared,        \* clearLocalData ran and no submitResponse wrote since
  saved,          \* fallbacks completed since the last clearLocalData
  page,           \* the React state of App, ProfileSelector and QuestionCard
  timers,         \* the pending timeouts of handleScoreSelect, oldest first
  counts          \* runs of handleScoreSelect (in all, and for the question
                  \* now displayed) and invocations of onNext

ui == <<page, timers, counts>>
vars == <<localStorage, now, pending, ret, cleared, saved, page, timers, counts>>

NoRet == [op |-> "none", args |-> <<>>, cause |-> "none", state |-> "none",
          value |-> <<>>, body |-> NULL]

Calls == BagToSet(pending)
InFlight(op) ==
  BagCardinality([p \in {q \in Calls : q.op = op} |-> pending[p]])

Stored == Len(LocalUsers(localStorage)) + Len(LocalResponses(localStorage))

(* useState of App (part_001:133-135), ProfileSelector (:19) and          *)
(* QuestionCard (:16-17); selectedScore 0 is null; effectQuestion is the  *)
(* index of the question the effect of QuestionCard last ran for, -1      *)
(* when it has not run since the component mounted.                       *)
PageInit ==
  [appState |-> "PROFILE", currentUser |-> NULL, currentQuestionIndex |-> 0,
   isLoading |-> FALSE, isSubmitting |-> FALSE, selectedScore |-> 0,
   effectQuestion |-> -1]

Init ==
  /\ localStorage = [k \in {"sel_users", "sel_responses"} |-> NULL]
  /\ now = Epoch
  /\ pending = EmptyBag
  /\ ret = NoRet
  /\ cleared = FALSE
  /\ saved = [users |-> 0, responses |-> 0]
  /\ page = PageInit
  /\ timers = <<>>
  /\ counts = [selects |-> 0, nexts |-> 0, here |-> 0]

----------------------------------------------------------------------------
(* Calls: the synchronous prefix up to the await of fetch *)

Start(op, a) ==
  /\ ret.op = "none"
  /\ BagCardinality(pending) < MaxCalls
  /\ pending' = pending (+) SetToBag({[op |-> op, args |-> a,
                                       phase |-> "fetch"]})
  /\ ret' = NoRet
  /\ UNCHANGED <<localStorage, now, cleared, saved>>

createUser(name, avatar, grade, gender) ==
  /\ Stored + InFlight("createUser") + InFlight("submitResponse") < MaxRecords
  /\ Start("createUser",
           [name |-> name, avatar |-> avatar, grade |-> grade,
            gender |-> gender])
  /\ UNCHANGED ui

submitResponse(userId, questionId, score) ==
  /\ Stored + InFlight("createUser") + InFlight("submitResponse") < MaxRecords
  /\ Start("submitResponse",
           [userId |-> userId, questionId |-> questionId, score |-> score])
  /\ UNCHANGED ui

fetchAllResponses == Start("fetchAllResponses", <<>>) /\ UNCHANGED ui

clearLocalData ==
  /\ ret.op = "none"
  /\ localStorage' = clearLocalDataStore(localStorage)
  /\ cleared' = TRUE
  /\ saved' = [users |-> 0, responses |-> 0]
  /\ ret' = NoRet
  /\ UNCHANGED <<now, pending>>
  /\ UNCHANGED ui

----------------------------------------------------------------------------
(* Settling.  The reactions of a settled promise run as microtasks, before *)
(* any other event of the page: the step after a settlement hands the     *)
(* value (or the rejection) to the caller.                                *)

Deliver ==
  /\ ret.op # "none"
  /\ ret' = NoRet
  /\ UNCHANGED <<localStorage, now, pending, cleared, saved>>
  /\ UNCHANGED ui

Settle(p, cause, state, value, body) ==
  /\ ret.op = "none"
  /\ ret' = [op |-> p.op, args |-> p.args, cause |-> cause,
             state |-> state, value |-> value, body |-> body]
  /\ pending' = pending (-) SetToBag({p})
  /\ UNCHANGED ui

(* the catch block of the call p, entered for the given cause *)
Catch(p, cause, body) ==
  \/ /\ p.op = "createUser"
     /\ \E t \in now..MaxClock :
          LET r == createUserCatch(localStorage, p.args, t) IN
            /\ localStorage' = r.ls
            /\ now' = t
            /\ Settle(p, cause, "fulfilled", r.value, body)
     /\ saved' = [saved EXCEPT !.users = @ + 1]
     /\ UNCHANGED cleared
  \/ /\ p.op = "submitResponse"
     /\ \E t1 \in now..MaxClock : \E t2 \in t1..MaxClock :
        \E t3 \in t2..MaxClock :
          LET r == submitResponseCatch(localStorage, p.args, t1, t2, t3) IN
            /\ localStorage' = r.ls
            /\ now' = t3
            /\ Settle(p, cause, "fulfilled", r.value, body)
     /\ saved' = [saved EXCEPT !.responses = @ + 1]
     /\ cleared' = FALSE
  \/ /\ p.op = "fetchAllResponses"
     /\ Settle(p, cause, "fulfilled", fetchAllResponsesCatch(localStorage),
               body)
     /\ UNCHANGED <<localStorage, now, cleared, saved>>

(* fetch rejects: the network failed *)
NetworkError(p) ==
  /\ p.phase = "fetch"
  /\ Catch(p, "network_error", NULL)

TimeoutAbortRethrown(p) ==
  /\ p.phase = "fetch"
  /\ Settle(p, "abort", "rejected", <<>>, NULL)
  /\ UNCHANGED <<localStorage, now, cleared, saved>>

(* the timer of fetchWithTimeout fires first: abort, fetch rejects *)
TimeoutAbort(p) ==
  /\ p.phase = "fetch"
  /\ Catch(p, "abort", NULL)

(* fetch resolves with a non-2xx response: !res.ok throws *)
RespondNotOk(p) ==
  /\ p.phase = "fetch"
  /\ Catch(p, "http_error", NULL)

(* fetch resolves with a 2xx response: res.json() starts reading the body *)
RespondOk(p) ==
  /\ ret.op = "none"
  /\ p.phase = "fetch"
  /\ pending' = (pending (-) SetToBag({p}))
                  (+) SetToBag({[p EXCEPT !.phase = "json"]})
  /\ ret' = NoRet
  /\ UNCHANGED <<localStorage, now, cleared, saved>>
  /\ UNCHANGED ui

(* res.json() resolves: the body was JSON text *)
JsonResolves(p, body) ==
  /\ p.phase = "json"
  /\ IsJSON(body)
  /\ IF p.op = "fetchAllResponses"
       THEN Settle(p, "ok", "fulfilled",
                   [source |-> "DB", data |-> JSONparse(body)], body)
       ELSE Settle(p, "ok", "fulfilled", JSONparse(body), body)
  /\ UNCHANGED <<localStorage, now, cleared, saved>>

(* res.json() rejects: the body was not JSON text, or reading it failed;  *)
(* the rejection is awaited inside the try only by fetchAllResponses      *)
JsonRejects(p, body) ==
  /\ p.phase = "json"
  /\ ~IsJSON(body)
  /\ IF p.op = "fetchAllResponses"
       THEN Catch(p, "bad_body", body)
       ELSE /\ Settle(p, "bad_body", "rejected", <<>>, body)
            /\ UNCHANGED <<localStorage, now, cleared, saved>>

----------------------------------------------------------------------------

Next ==
  \/ \E name \in Names, avatar \in Avatars, grade \in Grades,
        gender \in Genders : createUser(name, avatar, grade, gender)
  \/ \E userId \in UserIds, questionId \in QuestionIds, score \in Scores :
        submitResponse(userId, questionId, score)
  \/ fetchAllResponses
  \/ clearLocalData
  \/ \E p \in Calls : NetworkError(p)
  \/ \E p \in Calls : TimeoutAbort(p)
  \/ \E p \in Calls : RespondNotOk(p)
  \/ \E p \in Calls : RespondOk(p)
  \/ \E p \in Calls : \E body \in Bodies(p.op, p.args) : JsonResolves(p, body)
  \/ \E p \in Calls : \E body \in Bodies(p.op, p.args) : JsonRejects(p, body)
  \/ Deliver

Spec == Init /\ [][Next]_vars

(* Fair scheduling.  The timer that fetchWithTimeout sets is a macrotask   *)
(* of the page: while fetch is pending it fires, sooner or later, though   *)
(* other events may be served in between (strong fairness, as the step    *)
(* is not enabled while a settlement is being delivered).  The reactions  *)
(* of a settled promise always run.  What the remote does, and when, is   *)
(* not the page's to schedule: no fairness is assumed of it.              *)
Invocations ==
  {[op |-> "createUser",
    args |-> [name |-> name, avatar |-> avatar, grade |-> grade,
              gender |-> gender]] :
     name \in Names, avatar \in Avatars, grade \in Grades, gender \in Genders}
  \cup
  {[op |-> "submitResponse",
    args |-> [userId |-> userId, questionId |-> questionId, score |-> score]] :
     userId \in UserIds, questionId \in QuestionIds, score \in Scores}
  \cup
  {[op |-> "fetchAllResponses", args |-> <<>>]}

Awaiting(c, phase) == [op |-> c.op, args |-> c.args, phase |-> phase]

TimerFires(c) ==
  /\ Awaiting(c, "fetch") \in Calls
  /\ TimeoutAbort(Awaiting(c, "fetch"))

FairSpec ==
  /\ Spec
  /\ WF_vars(Deliver)
  /\ \A c \in Invocations : SF_vars(TimerFires(c))

----------------------------------------------------------------------------
(* The page: App, ProfileSelector and QuestionCard.  A handler runs to    *)
(* its end (or to its first await) in one step; React renders between     *)
(* steps, and a component that is not rendered loses its state.  The      *)
(* admin view is entered and left by a change of window.location.hash.    *)

QUESTIONS == [i \in 0..(NumQuestions - 1) |-> [id |-> i + 1]]

ShowsQuestionCard(p) == p.appState = "QUIZ" /\ p.currentUser # NULL
ShowsProfileSelector(p) ==
  /\ p.appState \notin {"ADMIN", "COMPLETED"}
  /\ ~ShowsQuestionCard(p)

(* QUESTIONS[currentQuestionIndex] is undefined: rendering QuestionCard   *)
(* throws and React unmounts the page                                     *)
Crashed(p) == ShowsQuestionCard(p) /\ p.currentQuestionIndex >= NumQuestions

Render(p) ==
  [p EXCEPT
     !.isLoading = IF ShowsProfileSelector(p) THEN @ ELSE FALSE,
     !.isSubmitting = IF ShowsQuestionCard(p) THEN @ ELSE FALSE,
     !.selectedScore = IF ShowsQuestionCard(p) THEN @ ELSE 0,
     !.effectQuestion = IF ShowsQuestionCard(p) THEN @ ELSE -1]

handleUserCreated(p, user) ==
  [p EXCEPT !.currentUser = user, !.appState = "QUIZ"]

(* window.location.hash: App's effect runs handleHashChange after every   *)
(* change of appState, so the hash is '#admin' exactly while the admin    *)
(* view is up                                                             *)
Hash(p) == IF p.appState = "ADMIN" THEN "#admin" ELSE ""

handleHashChange(p, hash) ==
  IF hash = "#admin" THEN [p EXCEPT !.appState = "ADMIN"]
  ELSE IF p.appState = "ADMIN" THEN [p EXCEPT !.appState = "PROFILE"]
  ELSE p

(* the closure of handleNextQuestion made by the render in which          *)
(* currentQuestionIndex was k                                             *)
handleNextQuestion(p, k) ==
  IF k < NumQuestions - 1
    THEN [p EXCEPT !.currentQuestionIndex = @ + 1]
    ELSE [p EXCEPT !.appState = "COMPLETED"]

(* ProfileSelector: the Start button, up to the await of createUser *)
handleStart(name, avatar, grade, gender) ==
  /\ ShowsProfileSelector(page)
  /\ ~page.isLoading
  /\ Stored + InFlight("createUser") + InFlight("submitResponse")
       < MaxPageRecords
  /\ Start("createUser",
           [name |-> name, avatar |-> avatar, grade |-> grade,
            gender |-> gender])
  /\ page' = [page EXCEPT !.isLoading = TRUE]
  /\ UNCHANGED <<timers, counts>>

(* the reactions of the settled promise: handleStart resumes after its    *)
(* await, the .catch of handleScoreSelect only logs                       *)
DeliverToPage ==
  /\ ret.op # "none"
  /\ ret' = NoRet
  /\ page' = IF ret.op # "createUser" \/ Crashed(page) THEN page
             ELSE IF ret.state = "fulfilled"
               THEN Render(handleHashChange(
                             handleUserCreated(page, ret.value), Hash(page)))
               ELSE [page EXCEPT !.isLoading = FALSE]
  /\ UNCHANGED <<localStorage, now, pending, cleared, saved, timers, counts>>

onNextTimerAwaitsSubmit ==
  /\ ret.op = "none"
  /\ timers # <<>>
  /\ InFlight("submitResponse") = 0
  /\ page' = IF Crashed(page) THEN page
             ELSE Render(handleHashChange(
                           handleNextQuestion(page, Head(timers)), Hash(page)))
  /\ timers' = Tail(timers)
  /\ counts' = [counts EXCEPT !.nexts = @ + 1, !.here = 0]
  /\ UNCHANGED <<localStorage, now, pending, ret, cleared, saved>>

(* QuestionCard: a Likert button *)
handleScoreSelect(score) ==
  /\ ShowsQuestionCard(page)
  /\ ~Crashed(page)
  /\ ~page.isSubmitting
  /\ counts.selects < MaxSelects
  /\ Stored + InFlight("createUser") + InFlight("submitResponse")
       < MaxPageRecords
  /\ Start("submitResponse",
           [userId |-> page.currentUser.id,
            questionId |-> QUESTIONS[page.currentQuestionIndex].id,
            score |-> score])
  /\ page' = [page EXCEPT !.selectedScore = score, !.isSubmitting = TRUE]
  /\ timers' = Append(timers, page.currentQuestionIndex)
  /\ counts' = [counts EXCEPT !.selects = @ + 1, !.here = @ + 1]

(* the timeout of handleScoreSelect fires: onNext() *)
onNextTimer ==
  /\ ret.op = "none"
  /\ timers # <<>>
  /\ page' = IF Crashed(page) THEN page
             ELSE Render(handleHashChange(
                           handleNextQuestion(page, Head(timers)), Hash(page)))
  /\ timers' = Tail(timers)
  /\ counts' = [counts EXCEPT !.nexts = @ + 1, !.here = 0]
  /\ UNCHANGED <<localStorage, now, pending, ret, cleared, saved>>

(* QuestionCard: the effect on [question] *)
questionEffect ==
  /\ ret.op = "none"
  /\ ShowsQuestionCard(page)
  /\ ~Crashed(page)
  /\ page.effectQuestion # page.currentQuestionIndex
  /\ page' = [page EXCEPT !.selectedScore = 0, !.isSubmitting = FALSE,
                          !.effectQuestion = page.currentQuestionIndex]
  /\ UNCHANGED <<localStorage, now, pending, ret, cleared, saved, timers,
                 counts>>

(* App: the Home button of the completion screen *)
resetApp ==
  /\ ret.op = "none"
  /\ page.appState = "COMPLETED"
  /\ page' = Render([page EXCEPT !.appState = "PROFILE",
                                 !.currentUser = NULL,
                                 !.currentQuestionIndex = 0])
  /\ UNCHANGED <<localStorage, now, pending, ret, cleared, saved, timers,
                 counts>>

(* App: the hashchange listener; the event fires when the hash changes *)
hashchange(hash) ==
  /\ ret.op = "none"
  /\ ~Crashed(page)
  /\ hash # Hash(page)
  /\ page' = Render(handleHashChange(page, hash))
  /\ counts' = [counts EXCEPT !.here = 0]
  /\ UNCHANGED <<localStorage, now, pending, ret, cleared, saved, timers>>

QuizNext ==
  \/ \E name \in Names, avatar \in Avatars, grade \in Grades,
        gender \in Genders : handleStart(name, avatar, grade, gender)
  \/ \E score \in Scores : handleScoreSelect(score)
  \/ onNextTimer
  \/ questionEffect
  \/ resetApp
  \/ DeliverToPage
  \/ \E p \in Calls : NetworkError(p)
  \/ \E p \in Calls : TimeoutAbort(p)
  \/ \E p \in Calls : RespondNotOk(p)
  \/ \E p \in Calls : RespondOk(p)
  \/ \E p \in Calls : \E body \in Bodies(p.op, p.args) : JsonResolves(p, body)
  \/ \E p \in Calls : \E body \in Bodies(p.op, p.args) : JsonRejects(p, body)

QuizSpec == Init /\ [][QuizNext]_vars

(* The timeout of handleScoreSelect is never cleared: once set it fires,  *)
(* after the microtasks that are due.  Nothing is assumed of the remote   *)
(* or of the timer of fetchWithTimeout.                                   *)
FairQuizSpec ==
  /\ QuizSpec
  /\ WF_vars(DeliverToPage)
  /\ SF_vars(onNextTimer)

(* The whole page: the quiz together with the admin route *)
AppNext ==
  \/ QuizNext
  \/ \E hash \in {"", "#admin"} : hashchange(hash)

AppSpec == Init /\ [][AppNext]_vars

----------------------------------------------------------------------------
(* Properties of the gateway.  ret describes the call the last step       *)
(* settled, so each property is read in the state right after the call    *)
(* resolved or rejected.                                                   *)

RemoteFailures == {"http_error", "network_error", "abort"}
Users == LocalUsers(localStorage)
Responses == LocalResponses(localStorage)
Range(s) == {s[i] : i \in 1..Len(s)}
IsLocalReport == ret.op = "fetchAllResponses" /\ ret.cause # "ok"

(* C1: createUser is total: whatever the remote does, the promise is      *)
(* fulfilled with a profile that has an id, and never rejects.            *)
C1_CreateUserNeverRejects ==
  ret.op = "createUser" =>
    /\ ret.state = "fulfilled"
    /\ "id" \in DOMAIN ret.value

(* C2: submitResponse never rejects: whatever the remote does, the        *)
(* promise is fulfilled with an acknowledgement {id, status}.             *)
C2_SubmitNeverRejects ==
  ret.op = "submitResponse" =>
    /\ ret.state = "fulfilled"
    /\ {"id", "status"} \subseteq DOMAIN ret.value

(* C3: when the remote call of createUser fails (non-2xx, network error)  *)
(* or is aborted by the timer, the profile returned has the clock value   *)
(* as id and exactly the name, avatar, grade and gender passed in, and an *)
(* equal profile is in 'sel_users' when the call resolves.                *)
C3_FallbackProfileStored ==
  (ret.op = "createUser" /\ ret.cause \in RemoteFailures) =>
    /\ ret.state = "fulfilled"
    /\ ret.value = [id |-> now, name |-> ret.args.name,
                    avatar |-> ret.args.avatar, grade |-> ret.args.grade,
                    gender |-> ret.args.gender]
    /\ ret.value \in Range(Users)

C3_Witness ==
  /\ ret.op = "createUser"
  /\ ret.cause = "abort"
  /\ Len(Users) = 2
  /\ now > Epoch

(* C4: a submitResponse(userId, questionId, score) made while the remote  *)
(* is unavailable leaves a record with these three values in              *)
(* 'sel_responses' and returns the status "saved_local".                  *)
C4_FallbackResponseStored ==
  (ret.op = "submitResponse" /\ ret.cause \in RemoteFailures) =>
    /\ ret.state = "fulfilled"
    /\ ret.value.status = "saved_local"
    /\ \E r \in Range(Responses) :
         /\ r.user_id = ret.args.userId
         /\ r.question_id = ret.args.questionId
         /\ r.score = ret.args.score

C4_Witness ==
  /\ ret.op = "submitResponse"
  /\ ret.cause = "network_error"
  /\ Len(Responses) = 2
  /\ Responses[1].user_id # Responses[2].user_id

(* C5: in degraded mode fetchAllResponses returns source "LOCAL" and as   *)
(* many rows as there are records in 'sel_responses', records without a   *)
(* matching profile included.                                             *)
C5_LocalReportLength ==
  IsLocalReport =>
    /\ ret.state = "fulfilled"
    /\ ret.value.source = "LOCAL"
    /\ Len(ret.value.data) = Len(Responses)

C5_Witness ==
  /\ IsLocalReport
  /\ Len(Responses) = 2
  /\ Users # <<>>
  /\ \E r \in Range(Responses) : \A u \in Range(Users) : u.id # r.user_id
  /\ \E r \in Range(Responses) : \E u \in Range(Users) : u.id = r.user_id

(* C6: fetchAllResponses always returns a source tag with the data: "DB"  *)
(* exactly when the remote call succeeded, with the rows of the server    *)
(* untouched, and "LOCAL" exactly when it failed or timed out, with the   *)
(* rows assembled from local storage.                                     *)
C6_SourceTag ==
  ret.op = "fetchAllResponses" =>
    /\ ret.state = "fulfilled"
    /\ DOMAIN ret.value = {"source", "data"}
    /\ ret.value.source \in {"DB", "LOCAL"}
    /\ ret.value.source = "DB" <=> ret.cause = "ok"
    /\ ret.cause = "ok" => ret.value.data = JSONparse(ret.body)
    /\ ret.cause # "ok" =>
         ret.value.data = sort(joined(Users, Responses))

C6_Witness ==
  /\ ret.op = "fetchAllResponses"
  /\ ret.cause = "ok"
  /\ ret.value.data # <<>>
  /\ Responses # <<>>

(* the row the join builds from a profile and a record *)
RowOf(u, r) ==
  [user_id |-> u.id, user_name |-> u.name, user_avatar |-> u.avatar,
   user_grade |-> u.grade, user_gender |-> u.gender,
   question_id |-> r.question_id, score |-> r.score,
   timestamp |-> r.timestamp]

(* C7 as stated: for every local record and every local profile whose id  *)
(* is the record's user_id, the report has the row made of that profile's *)
(* fields and the record's question_id, score and timestamp.              *)
C7_JoinEveryMatchingProfile ==
  IsLocalReport =>
    \A r \in Range(Responses) : \A u \in Range(Users) :
      u.id = r.user_id => RowOf(u, r) \in Range(ret.value.data)

(* C7 amended: the row carries the fields of the first profile of         *)
(* 'sel_users' whose id is the record's user_id.                          *)
C7_JoinFirstMatchingProfile ==
  IsLocalReport =>
    \A r \in Range(Responses) : \A j \in 1..Len(Users) :
      (/\ Users[j].id = r.user_id
       /\ \A k \in 1..(j - 1) : Users[k].id # r.user_id)
        => RowOf(Users[j], r) \in Range(ret.value.data)

C7_Witness ==
  /\ IsLocalReport
  /\ Len(Users) = 2
  /\ Users[1].id = Users[2].id
  /\ Users[1].name # Users[2].name
  /\ \E r \in Range(Responses) : r.user_id = Users[2].id

(* C8 as stated: a record whose user_id matches no local profile gives a  *)
(* row with user_name "Unknown" and user_id -1, blank grade and gender,   *)
(* and fetchAllResponses does not fail.                                   *)
Dangling(r) == \A u \in Range(Users) : u.id # r.user_id

C8_MissingProfileUnknown ==
  IsLocalReport =>
    /\ ret.state = "fulfilled"
    /\ \A r \in Range(Responses) :
         Dangling(r) =>
           \E row \in Range(ret.value.data) :
             /\ row.user_name = "Unknown"
             /\ row.user_id = -1
             /\ row.user_grade = ""
             /\ row.user_gender = ""
             /\ row.question_id = r.question_id
             /\ row.score = r.score
             /\ row.timestamp = r.timestamp

(* C8 amended: the placeholder name is "Unknown (Local)". *)
C8_MissingProfileUnknownLocal ==
  IsLocalReport =>
    /\ ret.state = "fulfilled"
    /\ \A r \in Range(Responses) :
         Dangling(r) =>
           \E row \in Range(ret.value.data) :
             /\ row.user_name = "Unknown (Local)"
             /\ row.user_id = -1
             /\ row.user_grade = ""
             /\ row.user_gender = ""
             /\ row.question_id = r.question_id
             /\ row.score = r.score
             /\ row.timestamp = r.timestamp

C8_Witness ==
  /\ IsLocalReport
  /\ Users # <<>>
  /\ \E r \in Range(Responses) : Dangling(r)

(* C9: in the LOCAL report a row with a later timestamp comes before a    *)
(* row with an earlier one, and the report is a permutation of the joined *)
(* rows.                                                                   *)
Count(s, x) == Cardinality({i \in 1..Len(s) : s[i] = x})

C9_SortedDescending ==
  IsLocalReport =>
    LET data == ret.value.data
    IN /\ \A i, j \in 1..Len(data) :
            getTime(data[i].timestamp) > getTime(data[j].timestamp) => i < j
       /\ Len(data) = Len(Responses)
       /\ \A x \in Range(data) \cup Range(joined(Users, Responses)) :
            Count(data, x) = Count(joined(Users, Responses), x)

C9_Witness ==
  /\ IsLocalReport
  /\ Len(Responses) = 2
  /\ getTime(Responses[1].timestamp) < getTime(Responses[2].timestamp)

(* C10: after clearLocalData, with no submitResponse written since, a     *)
(* fetchAllResponses that finds the remote unavailable returns source     *)
(* "LOCAL" and no rows.                                                    *)
C10_ClearThenFetchEmpty ==
  (IsLocalReport /\ cleared) =>
    /\ ret.state = "fulfilled"
    /\ ret.value.source = "LOCAL"
    /\ ret.value.data = <<>>

C10_Witness ==
  /\ IsLocalReport
  /\ cleared
  /\ Users # <<>>

----------------------------------------------------------------------------
(* Properties of the steps of the gateway *)

AllAbsent == [k \in {"sel_users", "sel_responses"} |-> NULL]
Absent(ls, k) == ls[k].kind = "null"

(* C11: clearLocalData cannot fail and is idempotent: from any state of   *)
(* local storage, with either or both collections already absent too, it  *)
(* leaves both keys absent, and a second call changes nothing.            *)
C11_ClearIdempotent ==
  [][clearLocalData =>
       /\ Absent(localStorage', "sel_users")
       /\ Absent(localStorage', "sel_responses")
       /\ clearLocalDataStore(localStorage') = localStorage']_vars

C11_Witness ==
  /\ cleared
  /\ localStorage = AllAbsent
  /\ pending = EmptyBag
  /\ ret.op = "none"

(* C12: clearLocalData wipes both collections in one step of the page: no *)
(* step removes one collection and leaves the other one stored, so no     *)
(* operation of the page, in flight or later, finds only one removed.     *)
C12_ClearAtomic ==
  [][(\E k \in {"sel_users", "sel_responses"} :
        ~Absent(localStorage, k) /\ Absent(localStorage', k))
       => localStorage' = AllAbsent]_vars

C12_Witness ==
  /\ cleared
  /\ localStorage = AllAbsent
  /\ \E p \in Calls : p.op = "fetchAllResponses"
  /\ \E p \in Calls : p.op = "submitResponse"

(* C13: the three classes of remote failure (network error, abort by the  *)
(* timer, non-2xx status) take the same fallback path: whichever class     *)
(* occurred, the step from a given local storage and clock fulfils the     *)
(* promise with the value, and leaves the storage, that the catch block   *)
(* alone determines.                                                       *)
FallbackStep ==
  /\ ret'.state = "fulfilled"
  /\ ret'.op = "createUser" =>
       \E t \in now..MaxClock :
         /\ createUserCatch(localStorage, ret'.args, t)
              = [ls |-> localStorage', value |-> ret'.value]
         /\ now' = t
  /\ ret'.op = "submitResponse" =>
       \E t1 \in now..MaxClock : \E t2 \in t1..MaxClock :
       \E t3 \in t2..MaxClock :
         /\ submitResponseCatch(localStorage, ret'.args, t1, t2, t3)
              = [ls |-> localStorage', value |-> ret'.value]
         /\ now' = t3
  /\ ret'.op = "fetchAllResponses" =>
       /\ localStorage' = localStorage
       /\ ret'.value = fetchAllResponsesCatch(localStorage)

C13_UniformFallback ==
  [][(ret.op = "none" /\ ret'.cause \in RemoteFailures) => FallbackStep]_vars

C13_Witness ==
  /\ ret.op = "submitResponse"
  /\ ret.cause = "http_error"
  /\ saved.responses = 2
  /\ \E p \in Calls : p.op = "createUser"

(* C14: no partial success: every call that settles either returns the    *)
(* remote data and leaves local storage as it was, or performs the whole  *)
(* local fallback.                                                         *)
RemoteStep ==
  /\ ret'.state = "fulfilled"
  /\ ret'.cause = "ok"
  /\ localStorage' = localStorage
  /\ IsJSON(ret'.body)
  /\ IF ret'.op = "fetchAllResponses"
       THEN ret'.value = [source |-> "DB", data |-> JSONparse(ret'.body)]
       ELSE ret'.value = JSONparse(ret'.body)

C14_NoPartialSuccess ==
  [][(ret.op = "none" /\ ret'.op # "none") =>
       \/ RemoteStep
       \/ ret'.cause # "ok" /\ FallbackStep]_vars

(* C17: the local store is append-only between clears: except for        *)
(* clearLocalData, every step leaves each collection a prefix of what it  *)
(* becomes; createUser never changes 'sel_responses', submitResponse      *)
(* never changes 'sel_users' and fetchAllResponses changes neither.       *)
IsPrefix(a, b) == Len(a) <= Len(b) /\ SubSeq(b, 1, Len(a)) = a
Settles(op) == ret.op = "none" /\ ret'.op = op

C17_AppendOnly ==
  [][/\ \/ clearLocalData
        \/ /\ IsPrefix(Users, Users')
           /\ IsPrefix(Responses, Responses')
     /\ Settles("createUser") =>
          localStorage'["sel_responses"] = localStorage["sel_responses"]
     /\ Settles("submitResponse") =>
          localStorage'["sel_users"] = localStorage["sel_users"]
     /\ Settles("fetchAllResponses") => localStorage' = localStorage]_vars

C17_Witness ==
  /\ ret.op = "createUser"
  /\ ret.cause \in RemoteFailures
  /\ Len(Users) = 2
  /\ Responses # <<>>

(* C19: no lost update within one page: however the calls in flight       *)
(* overlap, each createUser and submitResponse that fell back has its     *)
(* record in its collection: the collections are as long as the numbers   *)
(* of fallbacks since the last clear.                                      *)
C19_NoLostUpdate ==
  /\ Len(Users) = saved.users
  /\ Len(Responses) = saved.responses

C19_Witness ==
  /\ ret.op = "submitResponse"
  /\ ret.cause \in RemoteFailures
  /\ saved.responses = 2
  /\ saved.users = 1
  /\ pending # EmptyBag

(* C20: in the fallback of submitResponse the id of the acknowledgement   *)
(* is the id of the record the call appended, however the clock advances  *)
(* during the call.                                                        *)
C20_AckIdIsRecordId ==
  (ret.op = "submitResponse" /\ ret.cause \in RemoteFailures) =>
    /\ Responses # <<>>
    /\ ret.value.id = Responses[Len(Responses)].id

(* C16 as stated: for the same two collections the local report is a    *)
(* result of the server's SQL statement: the same rows with the same      *)
(* eight fields in timestamp-descending order up to ties, also when a     *)
(* response has no matching user.  (Stated for collections whose user     *)
(* ids are unique, which the server's primary key enforces.)              *)
UniqueIds(users) ==
  \A i, j \in 1..Len(users) : users[i].id = users[j].id => i = j

C16_SameRowsAsServer ==
  (IsLocalReport /\ UniqueIds(Users)) =>
    ret.value.data \in adminResponses(Users, Responses)

(* C16 amended: with unique user ids, the local rows of the responses     *)
(* that reference an existing user are a result of the server's SQL       *)
(* statement (same rows, same eight fields, timestamp-descending up to    *)
(* ties), so that the two reports are equal when every response           *)
(* references an existing user; each response without a matching user is  *)
(* one further local row, the placeholder row, which the server's inner   *)
(* join omits.                                                            *)
IsPlaceholder(row) == row.user_id = -1 /\ row.user_name = "Unknown (Local)"

C16_SameRowsExceptDangling ==
  (IsLocalReport /\ UniqueIds(Users)) =>
    LET local == ret.value.data
        matched == SelectSeqBy(local, {x \in Range(local) : ~IsPlaceholder(x)})
        dangling == {i \in 1..Len(Responses) : Dangling(Responses[i])}
    IN /\ matched \in adminResponses(Users, Responses)
       /\ Len(local) = Len(matched) + Cardinality(dangling)
       /\ dangling = {} => local \in adminResponses(Users, Responses)

C16_Witness ==
  /\ IsLocalReport
  /\ UniqueIds(Users)
  /\ Len(Responses) = 2
  /\ \A i \in 1..2 : ~Dangling(Responses[i])
  /\ Responses[1].timestamp # Responses[2].timestamp
  /\ ret.value.data \in adminResponses(Users, Responses)

(* C15: every gateway call terminates: under fair scheduling of the     *)
(* timer, whatever the remote does, each call in flight eventually        *)
(* settles with a usable value (its promise is fulfilled).                *)
C15_EveryCallSettlesUsable ==
  \A c \in Invocations :
    (\E p \in Calls : p.op = c.op /\ p.args = c.args)
      ~> (ret.op = c.op /\ ret.args = c.args /\ ret.state = "fulfilled")

(* C18: fire-and-forget quiz flow: after a score is selected, onNext is *)
(* eventually invoked, whether the submitResponse of that answer has      *)
(* settled or is still in flight: the n-th run of handleScoreSelect is    *)
(* followed by the n-th invocation of onNext.                             *)
C18_OnNextEventually ==
  \A n \in 1..MaxSelects : (counts.selects >= n) ~> (counts.nexts >= n)

C18_Witness ==
  /\ counts.selects = 1
  /\ counts.nexts = 1
  /\ page.currentQuestionIndex = 1
  /\ \E p \in Calls : p.op = "submitResponse" /\ p.phase = "fetch"

(* C23: every quiz session starts at the first question: whenever     *)
(* appState becomes QUIZ (which only handleUserCreated does),             *)
(* currentQuestionIndex is 0, whatever happened before: a completed       *)
(* quiz, resetApp, or a visit to the admin view in the middle of a quiz.  *)
C23_SessionStartsAtFirstQuestion ==
  [][(page.appState # "QUIZ" /\ page'.appState = "QUIZ")
       => page'.currentQuestionIndex = 0]_vars

(* C21: at most one answer per displayed question: while a question is *)
(* displayed handleScoreSelect runs at most once, so that at most one     *)
(* submitResponse is issued and onNext is scheduled at most once for it,  *)
(* whatever clicks arrive and whenever.                                   *)
C21_OneAnswerPerQuestion == counts.here <= 1

(* C22: in every reachable state of App currentQuestionIndex is an index *)
(* of QUESTIONS (0..QUESTIONS.length-1), so that the QUIZ screen always   *)
(* renders a defined question: handleNextQuestion never moves the index   *)
(* past the last question.                                                *)
C22_IndexInRange == page.currentQuestionIndex \in DOMAIN QUESTIONS

====
